---- MODULE Spec2Model ----
(***************************************************************************)
(* Model of vault-iam-auth (src/src/lib.rs): authenticate and              *)
(* new_iam_payload, together with the conversions they apply (UTF-8,       *)
(* base64, JSON, form encoding, URL formatting) and the request-signing    *)
(* library object they drive (rusoto_signature::SignedRequest).            *)
(*                                                                         *)
(* Text is a sequence of Unicode code points, bytes are sequences of       *)
(* 0..255.  Option<T> is a sequence of length 0 (None) or 1 (Some).        *)
(***************************************************************************)
EXTENDS Integers, Sequences, FiniteSets, TLC

(***************************************************************************)
(* String literals of the source, as code points.                          *)
(***************************************************************************)
POST == <<80,79,83,84>>  \* "POST"
STS_URL == <<104,116,116,112,115,58,47,47,115,116,115,46,97,109,97,122,111,110,97,119,115,46,99,111,109,47>>  \* "https://sts.amazonaws.com/"
STS_BODY == <<65,99,116,105,111,110,61,71,101,116,67,97,108,108,101,114,73,100,101,110,116,105,116,121,38,86,101,114,115,105,111,110,61,50,48,49,49,45,48,54,45,49,53>>  \* "Action=GetCallerIdentity&Version=2011-06-15"
SERVER_ID_HEADER == <<88,45,86,97,117,108,116,45,65,87,83,45,73,65,77,45,83,101,114,118,101,114,45,73,68>>  \* "X-Vault-AWS-IAM-Server-ID"
FORM_CONTENT_TYPE == <<97,112,112,108,105,99,97,116,105,111,110,47,120,45,119,119,119,45,102,111,114,109,45,117,114,108,101,110,99,111,100,101,100>>  \* "application/x-www-form-urlencoded"
K_Action == <<65,99,116,105,111,110>>  \* "Action"
V_GetCallerIdentity == <<71,101,116,67,97,108,108,101,114,73,100,101,110,116,105,116,121>>  \* "GetCallerIdentity"
K_Version == <<86,101,114,115,105,111,110>>  \* "Version"
V_2011_06_15 == <<50,48,49,49,45,48,54,45,49,53>>  \* "2011-06-15"
URL_MID == <<47,118,49,47,97,117,116,104,47>>  \* "/v1/auth/"
URL_TAIL == <<47,108,111,103,105,110>>  \* "/login"
ACCEPT == <<65,99,99,101,112,116>>  \* "Accept"
APPLICATION_JSON == <<97,112,112,108,105,99,97,116,105,111,110,47,106,115,111,110>>  \* "application/json"
\* keys of the json! object at lines 81-87
K_METHOD == <<105,97,109,95,104,116,116,112,95,114,101,113,117,101,115,116,95,109,101,116,104,111,100>>  \* "iam_http_request_method"
K_URL == <<105,97,109,95,114,101,113,117,101,115,116,95,117,114,108>>  \* "iam_request_url"
K_HEADERS == <<105,97,109,95,114,101,113,117,101,115,116,95,104,101,97,100,101,114,115>>  \* "iam_request_headers"
K_BODY == <<105,97,109,95,114,101,113,117,101,115,116,95,98,111,100,121>>  \* "iam_request_body"
K_ROLE == <<114,111,108,101>>  \* "role"
\* header names and fixed texts of rusoto_signature::SignedRequest
H_HOST == <<104,111,115,116>>  \* 'host'
H_CONTENT_TYPE == <<99,111,110,116,101,110,116,45,116,121,112,101>>  \* 'content-type'
H_CONTENT_LENGTH == <<99,111,110,116,101,110,116,45,108,101,110,103,116,104>>  \* 'content-length'
H_X_AMZ_DATE == <<120,45,97,109,122,45,100,97,116,101>>  \* 'x-amz-date'
H_X_AMZ_CONTENT_SHA256 == <<120,45,97,109,122,45,99,111,110,116,101,110,116,45,115,104,97,50,53,54>>  \* 'x-amz-content-sha256'
H_X_AMZ_SECURITY_TOKEN == <<88,45,65,109,122,45,83,101,99,117,114,105,116,121,45,84,111,107,101,110>>  \* 'X-Amz-Security-Token'
H_AUTHORIZATION == <<97,117,116,104,111,114,105,122,97,116,105,111,110>>  \* 'authorization'
OCTET_STREAM == <<97,112,112,108,105,99,97,116,105,111,110,47,111,99,116,101,116,45,115,116,114,101,97,109>>  \* 'application/octet-stream'
SERVICE_STS == <<115,116,115>>  \* 'sts'
REGION_US_EAST_1 == <<117,115,45,101,97,115,116,45,49>>  \* 'us-east-1'
PATH_ROOT == <<47>>  \* '/'
STS_HOSTNAME == <<115,116,115,46,97,109,97,122,111,110,97,119,115,46,99,111,109>>  \* 'sts.amazonaws.com'
AUTH_PREFIX == <<65,87,83,52,45,72,77,65,67,45,83,72,65,50,53,54,32,67,114,101,100,101,110,116,105,97,108,61>>  \* 'AWS4-HMAC-SHA256 Credential='
AUTH_SIGNED_HEADERS == <<44,32,83,105,103,110,101,100,72,101,97,100,101,114,115,61>>  \* ', SignedHeaders='
AUTH_SIGNATURE == <<44,32,83,105,103,110,97,116,117,114,101,61>>  \* ', Signature='
AWS4_REQUEST == <<97,119,115,52,95,114,101,113,117,101,115,116>>  \* 'aws4_request'
SHA256_TAG == <<115,104,97,50,53,54,45>>  \* 'sha256-'

(***************************************************************************)
(* The inputs and environment values the model draws from.                 *)
(***************************************************************************)
DateA == <<50,48,50,48,48,49,48,50,84,48,51,48,52,48,53,90>>  \* '20200102T030405Z'
DateB == <<50,48,50,49,48,54,48,55,84,48,56,48,57,49,48,90>>  \* '20210607T080910Z'
KeyA == <<65,75,73,65,79,78,69>>  \* 'AKIAONE'
SecretA == <<115,51,99,114,101,116,65>>  \* 's3cretA'
KeyB == <<65,83,73,65,84,87,79>>  \* 'ASIATWO'
SecretB == <<115,51,99,114,101,116,66>>  \* 's3cretB'
TokenB == <<116,111,107,47,66,43,61>>  \* 'tok/B+='
RolePlain == <<109,121,45,114,111,108,101>>  \* 'my-role'
RoleSpecial == <<114,32,34,113,34,92,233,10>>  \* 'r "q"\\e-acute\n'
IdPlain == <<118,97,117,108,116,46,101,120,97,109,112,108,101,46,99,111,109>>  \* 'vault.example.com'
IdSpecial == <<73,100,32,34,120,34,32,233>>  \* 'Id "x" e-acute'
AddrPlain == <<104,116,116,112,115,58,47,47,118,97,117,108,116,46,108,111,99,97,108,58,56,50,48,48>>  \* 'https://vault.local:8200'
AddrOdd == <<104,116,116,112,58,47,47,118,58,49,47,32>>  \* 'http://v:1/ '
MountPlain == <<97,119,115>>  \* 'aws'
MountOdd == <<97,32,98,47,37,50,70,63,120>>  \* 'a b/%2F?x'
EXAMPLE_TARGET == <<104,116,116,112,115,58,47,47,118,97,117,108,116,46,108,111,99,97,108,58,56,50,48,48,47,118,49,47,97,117,116,104,47,97,119,115,47,108,111,103,105,110>>  \* 'https://vault.local:8200/v1/auth/aws/login'
BodyAuth == <<123,34,97,117,116,104,34,58,123,34,99,108,105,101,110,116,95,116,111,107,101,110,34,58,34,116,49,34,125,125>>  \* '{"auth":{"client_token":"t1"}}'
BodyErrors == <<123,34,101,114,114,111,114,115,34,58,32,91,34,112,101,114,109,105,115,115,105,111,110,32,100,101,110,105,101,100,34,93,125,10>>  \* '{"errors": ["permission denied"]}\n'
BodyHtml == <<60,104,116,109,108,62>>  \* '<html>'
K_auth == <<97,117,116,104>>  \* 'auth'
K_client_token == <<99,108,105,101,110,116,95,116,111,107,101,110>>  \* 'client_token'
V_t1 == <<116,49>>  \* 't1'
K_errors == <<101,114,114,111,114,115>>  \* 'errors'
V_permission_denied == <<112,101,114,109,105,115,115,105,111,110,32,100,101,110,105,101,100>>  \* 'permission denied'
SERVER_ID_HEADER_LOWER == <<120,45,118,97,117,108,116,45,97,119,115,45,105,97,109,45,115,101,114,118,101,114,45,105,100>>  \* 'x-vault-aws-iam-server-id'

(***************************************************************************)
(* Generic helpers.                                                        *)
(***************************************************************************)
None == <<>>
Some(x) == <<x>>
IsSome(o) == Len(o) = 1
Unwrap(o) == o[1]

EmptyMap == [k \in {} |-> <<>>]
MapPut(m, k, v) == [x \in DOMAIN m \cup {k} |-> IF x = k THEN v ELSE m[x]]
MapRemove(m, k) == [x \in DOMAIN m \ {k} |-> m[x]]

MinOf(S) == CHOOSE x \in S : \A y \in S : x <= y

\* the concatenation of a sequence of sequences (halving keeps it shallow)
RECURSIVE ConcatRange(_, _, _)
ConcatRange(ss, lo, hi) ==
  IF lo > hi THEN <<>>
  ELSE IF lo = hi THEN ss[lo]
  ELSE LET mid == (lo + hi) \div 2
       IN ConcatRange(ss, lo, mid) \o ConcatRange(ss, mid + 1, hi)

Concat(ss) == ConcatRange(ss, 1, Len(ss))

Reverse(s) == [i \in 1..Len(s) |-> s[Len(s) + 1 - i]]
Rotate(s) == IF s = <<>> THEN <<>> ELSE Append(Tail(s), Head(s))

\* byte-wise / code-point-wise lexicographic order, the Ord of String
RECURSIVE StrLess(_, _)
StrLess(a, b) ==
  IF b = <<>> THEN FALSE
  ELSE IF a = <<>> THEN TRUE
  ELSE IF Head(a) < Head(b) THEN TRUE
  ELSE IF Head(a) > Head(b) THEN FALSE
  ELSE StrLess(Tail(a), Tail(b))

\* the keys of a BTreeMap in iteration (ascending) order
RECURSIVE SortedKeys(_)
SortedKeys(S) ==
  IF S = {} THEN <<>>
  ELSE LET m == CHOOSE x \in S : \A y \in S \ {x} : StrLess(x, y)
       IN <<m>> \o SortedKeys(S \ {m})

\* u8::to_ascii_lowercase on every character
ToAsciiLowercase(s) ==
  [i \in 1..Len(s) |-> IF s[i] >= 65 /\ s[i] <= 90 THEN s[i] + 32 ELSE s[i]]

\* decimal rendering of a usize (format!("{}", n))
RECURSIVE Decimal(_)
Decimal(n) == IF n < 10 THEN <<48 + n>> ELSE Decimal(n \div 10) \o <<48 + (n % 10)>>

HexUpper(d) == IF d < 10 THEN 48 + d ELSE 55 + d
HexLower(d) == IF d < 10 THEN 48 + d ELSE 87 + d
HexVal(c) ==
  IF c >= 48 /\ c <= 57 THEN c - 48
  ELSE IF c >= 97 /\ c <= 102 THEN c - 87
  ELSE IF c >= 65 /\ c <= 70 THEN c - 55
  ELSE 0 - 1

(***************************************************************************)
(* UTF-8: str::as_bytes and String::from_utf8.                             *)
(***************************************************************************)
Utf8Char(cp) ==
  IF cp < 128 THEN <<cp>>
  ELSE IF cp < 2048 THEN <<192 + (cp \div 64), 128 + (cp % 64)>>
  ELSE IF cp < 65536 THEN
    <<224 + (cp \div 4096), 128 + ((cp \div 64) % 64), 128 + (cp % 64)>>
  ELSE <<240 + (cp \div 262144), 128 + ((cp \div 4096) % 64),
         128 + ((cp \div 64) % 64), 128 + (cp % 64)>>

\* str::as_bytes: ASCII runs are copied, every other character is encoded
RECURSIVE AsBytesFrom(_, _)
AsBytesFrom(s, i) ==
  LET wide == {j \in i..Len(s) : s[j] >= 128}
  IN IF wide = {} THEN SubSeq(s, i, Len(s))
     ELSE LET p == MinOf(wide)
          IN SubSeq(s, i, p - 1) \o Utf8Char(s[p]) \o AsBytesFrom(s, p + 1)

AsBytes(s) == AsBytesFrom(s, 1)

IsCont(b) == b >= 128 /\ b < 192

Utf8Bad == [ok |-> FALSE, val |-> <<>>, len |-> 0]

\* the character whose first byte is at p: its code point and byte length
Utf8DecodeAt(b, p) ==
  LET b0 == b[p]
      n == Len(b)
  IN IF b0 < 128 THEN [ok |-> TRUE, val |-> b0, len |-> 1]
     ELSE IF b0 >= 194 /\ b0 < 224 THEN
       IF p + 1 <= n /\ IsCont(b[p + 1])
       THEN [ok |-> TRUE, val |-> (b0 - 192) * 64 + (b[p + 1] - 128), len |-> 2]
       ELSE Utf8Bad
     ELSE IF b0 >= 224 /\ b0 < 240 THEN
       IF p + 2 <= n /\ IsCont(b[p + 1]) /\ IsCont(b[p + 2])
       THEN LET cp == (b0 - 224) * 4096 + (b[p + 1] - 128) * 64 + (b[p + 2] - 128)
            IN IF cp >= 2048 /\ ~(cp >= 55296 /\ cp <= 57343)
               THEN [ok |-> TRUE, val |-> cp, len |-> 3]
               ELSE Utf8Bad
       ELSE Utf8Bad
     ELSE IF b0 >= 240 /\ b0 < 245 THEN
       IF p + 3 <= n /\ IsCont(b[p + 1]) /\ IsCont(b[p + 2]) /\ IsCont(b[p + 3])
       THEN LET cp == (b0 - 240) * 262144 + (b[p + 1] - 128) * 4096
                      + (b[p + 2] - 128) * 64 + (b[p + 3] - 128)
            IN IF cp >= 65536 /\ cp <= 1114111
               THEN [ok |-> TRUE, val |-> cp, len |-> 4]
               ELSE Utf8Bad
       ELSE Utf8Bad
     ELSE Utf8Bad

\* String::from_utf8: Ok(text) or Err(FromUtf8Error)
RECURSIVE FromUtf8From(_, _)
FromUtf8From(b, i) ==
  LET wide == {j \in i..Len(b) : b[j] >= 128}
  IN IF wide = {} THEN [ok |-> TRUE, val |-> SubSeq(b, i, Len(b))]
     ELSE LET p == MinOf(wide)
              ch == Utf8DecodeAt(b, p)
          IN IF ~ch.ok THEN [ok |-> FALSE, val |-> <<>>]
             ELSE LET rest == FromUtf8From(b, p + ch.len)
                  IN IF ~rest.ok THEN [ok |-> FALSE, val |-> <<>>]
                     ELSE [ok |-> TRUE,
                           val |-> SubSeq(b, i, p - 1) \o <<ch.val>> \o rest.val]

FromUtf8(b) == FromUtf8From(b, 1)

(***************************************************************************)
(* base64::encode (standard alphabet, padded) and its decoding.            *)
(***************************************************************************)
Base64Char(v) ==
  IF v < 26 THEN 65 + v
  ELSE IF v < 52 THEN 97 + (v - 26)
  ELSE IF v < 62 THEN 48 + (v - 52)
  ELSE IF v = 62 THEN 43
  ELSE 47

Base64Val(c) ==
  IF c >= 65 /\ c <= 90 THEN c - 65
  ELSE IF c >= 97 /\ c <= 122 THEN c - 97 + 26
  ELSE IF c >= 48 /\ c <= 57 THEN c - 48 + 52
  ELSE IF c = 43 THEN 62
  ELSE IF c = 47 THEN 63
  ELSE 0 - 1

\* the four characters of one group of up to three bytes (n of them present)
Base64Group(b0, b1, b2, n) ==
  LET triple == b0 * 65536 + b1 * 256 + b2
  IN <<Base64Char(triple \div 262144),
       Base64Char((triple \div 4096) % 64),
       IF n >= 2 THEN Base64Char((triple \div 64) % 64) ELSE 61,
       IF n >= 3 THEN Base64Char(triple % 64) ELSE 61>>

\* base64 without the = padding
Base64EncodeUnpadded(b) ==
  LET n == Len(b)
      at(j) == IF j <= n THEN b[j] ELSE 0
      padded == Concat([g \in 1..((n + 2) \div 3) |->
                  Base64Group(at(3 * g - 2), at(3 * g - 1), at(3 * g), n - (3 * g - 3))])
  IN SubSeq(padded, 1, (4 * n + 2) \div 3)

Base64Encode(b) ==
  LET n == Len(b)
      at(j) == IF j <= n THEN b[j] ELSE 0
  IN Concat([g \in 1..((n + 2) \div 3) |->
       Base64Group(at(3 * g - 2), at(3 * g - 1), at(3 * g), n - (3 * g - 3))])

\* the bytes of one group of four characters
Base64Ungroup(v1, v2, v3, v4) ==
  LET q == v1 * 262144 + v2 * 4096 + v3 * 64 + v4
  IN <<q \div 65536, (q \div 256) % 256, q % 256>>

\* the decoding the secret server applies: RFC 4648, padding required
Base64Decode(s) ==
  LET n == Len(s)
      pad == IF n >= 2 /\ s[n] = 61 /\ s[n - 1] = 61 THEN 2
             ELSE IF n >= 1 /\ s[n] = 61 THEN 1 ELSE 0
      val(j) == IF j > n - pad THEN 0 ELSE Base64Val(s[j])
      good == /\ n % 4 = 0
              /\ \A j \in 1..(n - pad) : Base64Val(s[j]) >= 0
      all == Concat([g \in 1..(n \div 4) |->
               Base64Ungroup(val(4 * g - 3), val(4 * g - 2), val(4 * g - 1), val(4 * g))])
  IN IF ~good THEN [ok |-> FALSE, val |-> <<>>]
     ELSE [ok |-> TRUE, val |-> SubSeq(all, 1, 3 * (n \div 4) - pad)]

(***************************************************************************)
(* serde_urlencoded::to_string over rusoto's Params                        *)
(* (BTreeMap<String, Option<String>>): pairs in key order, each side       *)
(* form-urlencoded.                                                        *)
(***************************************************************************)
FormUnreserved(b) ==
  \/ b >= 48 /\ b <= 57
  \/ b >= 65 /\ b <= 90
  \/ b >= 97 /\ b <= 122
  \/ b \in {42, 45, 46, 95}

FormEncodeByte(b) ==
  IF FormUnreserved(b) THEN <<b>>
  ELSE IF b = 32 THEN <<43>>
  ELSE <<37, HexUpper(b \div 16), HexUpper(b % 16)>>

FormEncode(s) == LET b == AsBytes(s) IN Concat([i \in 1..Len(b) |-> FormEncodeByte(b[i])])

\* ServiceParams::put: insert key -> Some(value)
ParamsPut(p, k, v) == MapPut(p, k, Some(v))

UrlEncodedToString(p) ==
  LET present == {k \in DOMAIN p : IsSome(p[k])}
      ks == SortedKeys(present)
  IN Concat([i \in 1..Len(ks) |->
       (IF i = 1 THEN <<>> ELSE <<38>>)
       \o FormEncode(ks[i]) \o <<61>> \o FormEncode(Unwrap(p[ks[i]]))])

(***************************************************************************)
(* JSON: serde_json's compact writer and its reader.                       *)
(* Values: strings, arrays, objects, the three literals and unsigned       *)
(* integers.                                                               *)
(***************************************************************************)
JStr(s) == [t |-> "str", v |-> s]
JArr(a) == [t |-> "arr", v |-> a]
JObj(m) == [t |-> "obj", v |-> m]
JLit(w) == [t |-> "lit", v |-> w]
JNum(d) == [t |-> "num", v |-> d]

JsonEscapeChar(c) ==
  IF c = 34 THEN <<92, 34>>
  ELSE IF c = 92 THEN <<92, 92>>
  ELSE IF c = 8 THEN <<92, 98>>
  ELSE IF c = 12 THEN <<92, 102>>
  ELSE IF c = 10 THEN <<92, 110>>
  ELSE IF c = 13 THEN <<92, 114>>
  ELSE IF c = 9 THEN <<92, 116>>
  ELSE IF c < 32 THEN <<92, 117, 48, 48, HexLower(c \div 16), HexLower(c % 16)>>
  ELSE <<c>>

\* the characters of s from i on, escaped: runs that need no escape are copied
RECURSIVE JsonEscapeFrom(_, _)
JsonEscapeFrom(s, i) ==
  LET special == {j \in i..Len(s) : s[j] < 32 \/ s[j] = 34 \/ s[j] = 92}
  IN IF special = {} THEN SubSeq(s, i, Len(s))
     ELSE LET p == MinOf(special)
          IN SubSeq(s, i, p - 1) \o JsonEscapeChar(s[p]) \o JsonEscapeFrom(s, p + 1)

JsonString(s) == <<34>> \o JsonEscapeFrom(s, 1) \o <<34>>

JsonStringArray(a) ==
  <<91>> \o Concat([i \in 1..Len(a) |->
                     (IF i = 1 THEN <<>> ELSE <<44>>) \o JsonString(a[i])]) \o <<93>>

\* a map of String -> Vec<String>, its entries written in the order `order`
JsonHeaderMap(m, order) ==
  <<123>> \o Concat([i \in 1..Len(order) |->
      (IF i = 1 THEN <<>> ELSE <<44>>)
      \o JsonString(order[i]) \o <<58>> \o JsonStringArray(m[order[i]])]) \o <<125>>

\* a serde_json::Value object of strings; Map is a BTreeMap, so key order
JsonStringObject(m) ==
  LET ks == SortedKeys(DOMAIN m)
  IN <<123>> \o Concat([i \in 1..Len(ks) |->
        (IF i = 1 THEN <<>> ELSE <<44>>)
        \o JsonString(ks[i]) \o <<58>> \o JsonString(m[ks[i]])]) \o <<125>>

IsWs(c) == c \in {32, 9, 10, 13}
IsDigit(c) == c >= 48 /\ c <= 57

RECURSIVE SkipWs(_, _)
SkipWs(s, i) == IF i <= Len(s) /\ IsWs(s[i]) THEN SkipWs(s, i + 1) ELSE i

ParseFail == [ok |-> FALSE, val |-> JLit(<<>>), next |-> 0]
ParseOk(v, n) == [ok |-> TRUE, val |-> v, next |-> n]

\* the number of backslashes that end at position j, counted back to lo
RECURSIVE BackslashRun(_, _, _)
BackslashRun(s, j, lo) ==
  IF j >= lo /\ s[j] = 92 THEN 1 + BackslashRun(s, j - 1, lo) ELSE 0

UnescapeBad == [ok |-> FALSE, val |-> <<>>]

\* the characters s[lo..hi] of a string body with their escapes resolved
RECURSIVE Unescape(_, _, _)
Unescape(s, lo, hi) ==
  LET bs == {j \in lo..hi : s[j] = 92}
  IN IF bs = {} THEN [ok |-> TRUE, val |-> SubSeq(s, lo, hi)]
     ELSE LET p == MinOf(bs)
              e == IF p + 1 <= hi THEN s[p + 1] ELSE 0
              one == IF e \in {34, 92, 47} THEN e
                     ELSE IF e = 98 THEN 8
                     ELSE IF e = 102 THEN 12
                     ELSE IF e = 110 THEN 10
                     ELSE IF e = 114 THEN 13
                     ELSE IF e = 116 THEN 9
                     ELSE 0 - 1
              hex == e = 117 /\ p + 5 <= hi /\ \A j \in 2..5 : HexVal(s[p + j]) >= 0
              cp == IF hex
                    THEN HexVal(s[p + 2]) * 4096 + HexVal(s[p + 3]) * 256
                         + HexVal(s[p + 4]) * 16 + HexVal(s[p + 5])
                    ELSE one
              len == IF hex THEN 6 ELSE 2
          IN IF cp < 0 \/ (cp >= 55296 /\ cp <= 57343) THEN UnescapeBad
             ELSE LET rest == Unescape(s, p + len, hi)
                  IN IF ~rest.ok THEN UnescapeBad
                     ELSE [ok |-> TRUE,
                           val |-> SubSeq(s, lo, p - 1) \o <<cp>> \o rest.val]

\* a string, from just after its opening quote: it ends at the first quote
\* that no backslash escapes
ParseStringBody(s, i) ==
  LET quotes == {j \in i..Len(s) : s[j] = 34 /\ BackslashRun(s, j - 1, i) % 2 = 0}
  IN IF quotes = {} THEN ParseFail
     ELSE LET e == MinOf(quotes)
              body == Unescape(s, i, e - 1)
          IN IF body.ok /\ \A j \in i..(e - 1) : s[j] >= 32
             THEN ParseOk(JStr(body.val), e + 1)
             ELSE ParseFail

RECURSIVE ParseDigits(_, _, _)
ParseDigits(s, i, acc) ==
  IF i <= Len(s) /\ IsDigit(s[i]) THEN ParseDigits(s, i + 1, Append(acc, s[i]))
  ELSE ParseOk(JNum(acc), i)

HasWordAt(s, i, w) == i + Len(w) - 1 <= Len(s) /\ SubSeq(s, i, i + Len(w) - 1) = w

W_null == <<110,117,108,108>>
W_true == <<116,114,117,101>>
W_false == <<102,97,108,115,101>>

RECURSIVE ParseValue(_, _)
RECURSIVE ParseElements(_, _, _)
RECURSIVE ParseMembers(_, _, _)

ParseValue(s, i0) ==
  LET i == SkipWs(s, i0) IN
  IF i > Len(s) THEN ParseFail
  ELSE LET c == s[i] IN
    IF c = 34 THEN ParseStringBody(s, i + 1)
    ELSE IF c = 91 THEN
      LET j == SkipWs(s, i + 1) IN
      IF j <= Len(s) /\ s[j] = 93 THEN ParseOk(JArr(<<>>), j + 1)
      ELSE ParseElements(s, i + 1, <<>>)
    ELSE IF c = 123 THEN
      LET j == SkipWs(s, i + 1) IN
      IF j <= Len(s) /\ s[j] = 125 THEN ParseOk(JObj(EmptyMap), j + 1)
      ELSE ParseMembers(s, i + 1, EmptyMap)
    ELSE IF IsDigit(c) THEN ParseDigits(s, i, <<>>)
    ELSE IF HasWordAt(s, i, W_null) THEN ParseOk(JLit(W_null), i + 4)
    ELSE IF HasWordAt(s, i, W_true) THEN ParseOk(JLit(W_true), i + 4)
    ELSE IF HasWordAt(s, i, W_false) THEN ParseOk(JLit(W_false), i + 5)
    ELSE ParseFail

ParseElements(s, i, acc) ==
  LET r == ParseValue(s, i) IN
  IF ~r.ok THEN ParseFail
  ELSE LET j == SkipWs(s, r.next) IN
    IF j > Len(s) THEN ParseFail
    ELSE IF s[j] = 44 THEN ParseElements(s, j + 1, Append(acc, r.val))
    ELSE IF s[j] = 93 THEN ParseOk(JArr(Append(acc, r.val)), j + 1)
    ELSE ParseFail

ParseMembers(s, i0, acc) ==
  LET i == SkipWs(s, i0) IN
  IF i > Len(s) \/ s[i] # 34 THEN ParseFail
  ELSE LET k == ParseStringBody(s, i + 1) IN
    IF ~k.ok THEN ParseFail
    ELSE LET c == SkipWs(s, k.next) IN
      IF c > Len(s) \/ s[c] # 58 THEN ParseFail
      ELSE LET r == ParseValue(s, c + 1) IN
        IF ~r.ok THEN ParseFail
        ELSE LET j == SkipWs(s, r.next)
                 m == MapPut(acc, k.val.v, r.val)
             IN IF j > Len(s) THEN ParseFail
                ELSE IF s[j] = 44 THEN ParseMembers(s, j + 1, m)
                ELSE IF s[j] = 125 THEN ParseOk(JObj(m), j + 1)
                ELSE ParseFail

\* serde_json::from_slice: bytes must be UTF-8, one value, only blanks after it
JsonFromBytes(b) ==
  LET t == FromUtf8(b) IN
  IF ~t.ok THEN ParseFail
  ELSE LET r == ParseValue(t.val, 1) IN
    IF r.ok /\ SkipWs(t.val, r.next) = Len(t.val) + 1 THEN r ELSE ParseFail

(***************************************************************************)
(* rusoto_signature::SignedRequest, as new_iam_payload drives it.          *)
(* headers is a BTreeMap<String, Vec<Vec<u8>>>: header names are stored    *)
(* ASCII-lowercased, every add appends to the name's value list.           *)
(***************************************************************************)
SignedRequestNew(method, service, region, path) ==
  [method |-> method, service |-> service, region |-> region, path |-> path,
   headers |-> EmptyMap, payload |-> None]

AddHeaderBytes(req, key, bytes) ==
  LET k == ToAsciiLowercase(key)
      old == IF k \in DOMAIN req.headers THEN req.headers[k] ELSE <<>>
  IN [req EXCEPT !.headers = MapPut(req.headers, k, Append(old, bytes))]

AddHeader(req, key, value) == AddHeaderBytes(req, key, AsBytes(value))

RemoveHeader(req, key) ==
  [req EXCEPT !.headers = MapRemove(req.headers, ToAsciiLowercase(key))]

\* set_payload(Some(String)): the text's bytes become the request body
SetPayload(req, body) ==
  [req EXCEPT !.payload = IF IsSome(body) THEN Some(AsBytes(Unwrap(body))) ELSE None]

SetContentType(req, content_type) == AddHeader(req, H_CONTENT_TYPE, content_type)

\* the hex SHA-256 of the body, kept abstract: a text determined by the bytes
PayloadDigest(req) ==
  SHA256_TAG \o Decimal(IF IsSome(req.payload) THEN Len(Unwrap(req.payload)) ELSE 0)

RECURSIVE JoinWith(_, _)
JoinWith(ss, sep) ==
  IF ss = <<>> THEN <<>>
  ELSE IF Len(ss) = 1 THEN ss[1]
  ELSE ss[1] \o sep \o JoinWith(Tail(ss), sep)

\* sign(&creds): the host, length, date, token and digest headers are
\* (re)written, then the authorization header is computed over the request
\* as it stands.  `date` is the wall clock the signer reads; `signature` are
\* the bytes the signer writes as the signature, which this model does not
\* compute: headers() hands values back as Vec<u8>.
Sign(req, creds, date, signature) ==
  LET r1 == AddHeader(RemoveHeader(req, H_HOST), H_HOST, STS_HOSTNAME)
      r2 == IF H_CONTENT_TYPE \in DOMAIN r1.headers THEN r1
            ELSE AddHeader(r1, H_CONTENT_TYPE, OCTET_STREAM)
      r3 == IF IsSome(r2.payload)
            THEN AddHeader(RemoveHeader(r2, H_CONTENT_LENGTH), H_CONTENT_LENGTH,
                           Decimal(Len(Unwrap(r2.payload))))
            ELSE r2
      r4 == AddHeader(RemoveHeader(r3, H_X_AMZ_DATE), H_X_AMZ_DATE, date)
      r5 == IF IsSome(creds.token)
            THEN AddHeader(RemoveHeader(r4, H_X_AMZ_SECURITY_TOKEN),
                           H_X_AMZ_SECURITY_TOKEN, Unwrap(creds.token))
            ELSE r4
      r6 == AddHeader(RemoveHeader(r5, H_X_AMZ_CONTENT_SHA256),
                      H_X_AMZ_CONTENT_SHA256, PayloadDigest(r5))
      scope == JoinWith(<<creds.key, SubSeq(date, 1, 8), req.region, req.service,
                          AWS4_REQUEST>>, <<47>>)
      auth == AsBytes(AUTH_PREFIX \o scope \o AUTH_SIGNED_HEADERS
                      \o JoinWith(SortedKeys(DOMAIN r6.headers), <<59>>)
                      \o AUTH_SIGNATURE) \o signature
  IN AddHeaderBytes(RemoveHeader(r6, H_AUTHORIZATION), H_AUTHORIZATION, auth)

(***************************************************************************)
(* new_iam_payload, lines 52-87, as operators.                             *)
(***************************************************************************)
\* lines 53-64 without lines 55-57
BuildRequestWithoutServerId(iam_server_id) ==
  LET req0 == SignedRequestNew(POST, SERVICE_STS, REGION_US_EAST_1, PATH_ROOT)
      p0 == ParamsPut(EmptyMap, K_Action, V_GetCallerIdentity)
      p1 == ParamsPut(p0, K_Version, V_2011_06_15)
      req2 == SetPayload(req0, Some(UrlEncodedToString(p1)))
  IN SetContentType(req2, FORM_CONTENT_TYPE)

\* lines 53-64: the request as it is handed to sign
BuildRequest(iam_server_id) ==
  LET req0 == SignedRequestNew(POST, SERVICE_STS, REGION_US_EAST_1, PATH_ROOT)
      req1 == IF IsSome(iam_server_id)
              THEN AddHeader(req0, SERVER_ID_HEADER, Unwrap(iam_server_id))
              ELSE req0
      p0 == ParamsPut(EmptyMap, K_Action, V_GetCallerIdentity)
      p1 == ParamsPut(p0, K_Version, V_2011_06_15)
      req2 == SetPayload(req1, Some(UrlEncodedToString(p1)))
  IN SetContentType(req2, FORM_CONTENT_TYPE)

\* line 74: String::from_utf8(v.to_owned()) on every value of every header
HeaderValuesAreUtf8(req) ==
  \A k \in DOMAIN req.headers :
    \A i \in 1..Len(req.headers[k]) : FromUtf8(req.headers[k][i]).ok

\* lines 70-77: the HashMap<String, Vec<String>> built from the headers
HeaderStrings(req) ==
  [k \in DOMAIN req.headers |->
     [i \in 1..Len(req.headers[k]) |-> FromUtf8(req.headers[k][i]).val]]

\* The iteration order of a std HashMap is not specified; serde_json writes
\* the entries in iteration order.  Three orders stand for all of them.
HashMapOrder(keys, kind) ==
  LET asc == SortedKeys(keys)
  IN IF kind = "ascending" THEN asc
     ELSE IF kind = "descending" THEN Reverse(asc)
     ELSE Rotate(asc)

\* line 78
SignedHeadersJson(req, order) == JsonHeaderMap(HeaderStrings(req), order)

\* lines 81-87 with the role escaped by hand before it enters the object
IamPayloadEscapedRole(role, signed_headers) ==
  LET m0 == MapPut(EmptyMap, K_METHOD, POST)
      m1 == MapPut(m0, K_URL, Base64Encode(AsBytes(STS_URL)))
      m2 == MapPut(m1, K_HEADERS, Base64Encode(AsBytes(signed_headers)))
      m3 == MapPut(m2, K_BODY, Base64Encode(AsBytes(STS_BODY)))
  IN MapPut(m3, K_ROLE, JsonEscapeFrom(role, 1))

\* lines 81-87
IamPayload(role, signed_headers) ==
  LET m0 == MapPut(EmptyMap, K_METHOD, POST)
      m1 == MapPut(m0, K_URL, Base64Encode(AsBytes(STS_URL)))
      m2 == MapPut(m1, K_HEADERS, Base64Encode(AsBytes(signed_headers)))
      m3 == MapPut(m2, K_BODY, Base64Encode(AsBytes(STS_BODY)))
  IN MapPut(m3, K_ROLE, role)

(***************************************************************************)
(* authenticate, lines 29-42, as operators.                                *)
(***************************************************************************)
\* the target with the mount path percent-escaped
LoginUrlEscaped(vault_address, mount_path) ==
  vault_address \o URL_MID \o FormEncode(mount_path) \o URL_TAIL

\* lines 29-32: format!("{}/v1/auth/{}/login", vault_address, mount_path)
LoginUrl(vault_address, mount_path) ==
  vault_address \o URL_MID \o mount_path \o URL_TAIL

\* lines 34-38: the request reqwest sends; .json() serialises the Value
\* (object keys in BTreeMap order) and sets the content type
PostRequest(c, target, body) ==
  [call |-> c, method |-> POST, url |-> target,
   headers |-> MapPut(MapPut(EmptyMap, ACCEPT, APPLICATION_JSON),
                      H_CONTENT_TYPE, APPLICATION_JSON),
   body |-> AsBytes(JsonStringObject(body))]

Ok(v) == [kind |-> "Ok", error |-> "", value |-> v]
Err(e) == [kind |-> "Err", error |-> e, value |-> JLit(<<>>)]
Panic(e) == [kind |-> "Panic", error |-> e, value |-> JLit(<<>>)]

\* lines 40-42 with an error status turned into an error (error_for_status)
DecodeResponseCheckingStatus(response) ==
  LET r == JsonFromBytes(response.body)
  IN IF response.status >= 400 THEN Err("reqwest::Error(status)")
     ELSE IF r.ok THEN [kind |-> "Ok", error |-> "", value |-> r.val]
     ELSE Err("reqwest::Error(decode)")

\* lines 40-42: .json::<serde_json::Value>().await? then Ok(res); the status
\* of the response is not looked at
DecodeResponse(response) ==
  LET r == JsonFromBytes(response.body)
  IN IF r.ok THEN Ok(r.val) ELSE Err("reqwest::Error(decode)")

(***************************************************************************)
(* State.  One entry per authenticate call in flight; a call owns every    *)
(* value below except `posts`, the requests the secret server has been     *)
(* sent, in the order they were sent.                                      *)
(***************************************************************************)
VARIABLES
  params,          \* the Parameters the call was given
  pc,              \* where the call is: start, resolved, signed, built, sent,
                   \* received, done
  credentials,     \* Option: the credentials the chain provider returned
  signed_request,  \* Option: the SignedRequest after sign
  signed_headers,  \* Option: the JSON text of line 78
  payload,         \* Option: the json! object of lines 81-87
  res,             \* Option: the response send() resolved to
  outcome,         \* Option: what authenticate returned (or its panic)
  posts,           \* the POSTs issued so far
  resolutions,     \* how many times the call asked the provider chain
  chain_answer,    \* Option: what the provider chain answered the call
  sign_input,      \* Option: the request as it was when sign was called
  sign_calls,      \* how many times the call signed a request
  world            \* what the environment of the run can answer

vars == <<params, pc, credentials, signed_request, signed_headers, payload, res,
          outcome, posts, resolutions, chain_answer, sign_input, sign_calls, world>>

\* how many authenticate calls run side by side in SpecConcurrent
NumCalls == 2

Roles == {RolePlain, RoleSpecial}
ServerIds == {None, Some(IdPlain), Some(IdSpecial)}
VaultAddresses == {AddrPlain, AddrOdd}
MountPaths == {MountPlain, MountOdd}

AllParameters ==
  [iam_server_id : ServerIds, mount_path : MountPaths, role : Roles,
   vault_address : VaultAddresses]

\* what ChainProvider::credentials() can resolve to
CredentialsA == [key |-> KeyA, secret |-> SecretA, token |-> None]
CredentialsB == [key |-> KeyB, secret |-> SecretB, token |-> Some(TokenB)]
ChainOutcomes ==
  {[ok |-> TRUE, creds |-> CredentialsA], [ok |-> TRUE, creds |-> CredentialsB],
   [ok |-> FALSE, creds |-> CredentialsA]}

\* the wall clock sign reads, and the signature bytes it writes: a hex text,
\* and a byte string that is not UTF-8
SignDates == {DateA}
SignatureBytes == {<<57, 102, 48, 97>>, <<57, 102, 255, 97>>}

\* what send() can resolve to: a transport error, or a response
Responses ==
  {[status |-> 200, body |-> AsBytes(BodyAuth)],
   [status |-> 400, body |-> AsBytes(BodyErrors)],
   [status |-> 502, body |-> AsBytes(BodyHtml)],
   [status |-> 200, body |-> <<34, 255, 34>>]}

HashMapOrderKinds == {"ascending", "descending", "rotated"}

\* every answer of the environment
FullWorld ==
  [chain |-> ChainOutcomes, dates |-> SignDates, signatures |-> SignatureBytes,
   orders |-> HashMapOrderKinds, responses |-> Responses]

InitFor(calls, parameters, w) ==
  /\ params \in parameters
  /\ world = w
  /\ pc = [c \in calls |-> "start"]
  /\ credentials = [c \in calls |-> None]
  /\ signed_request = [c \in calls |-> None]
  /\ signed_headers = [c \in calls |-> None]
  /\ payload = [c \in calls |-> None]
  /\ res = [c \in calls |-> None]
  /\ outcome = [c \in calls |-> None]
  /\ posts = <<>>
  /\ resolutions = [c \in calls |-> 0]
  /\ chain_answer = [c \in calls |-> None]
  /\ sign_input = [c \in calls |-> None]
  /\ sign_calls = [c \in calls |-> 0]

\* one call, every combination of Parameters
Init == InitFor({1}, [{1} -> AllParameters], FullWorld)

(***************************************************************************)
(* Steps of one authenticate call.                                         *)
(***************************************************************************)
\* line 51 with a failure of the chain papered over by default credentials
ResolveFallingBack(c) ==
  /\ pc[c] = "start"
  /\ resolutions' = [resolutions EXCEPT ![c] = @ + 1]
  /\ \E r \in world.chain :
       /\ chain_answer' = [chain_answer EXCEPT ![c] = Some(r)]
       /\ credentials' = [credentials EXCEPT ![c] = Some(r.creds)]
       /\ pc' = [pc EXCEPT ![c] = "resolved"]
       /\ UNCHANGED outcome
  /\ UNCHANGED <<params, signed_request, signed_headers, payload, res, posts,
                 sign_input, sign_calls, world>>

\* line 51 with the credentials of an earlier call reused when there are any
ResolveCached(c) ==
  /\ pc[c] = "start"
  /\ IF \E d \in DOMAIN pc : IsSome(credentials[d])
     THEN /\ credentials' =
               [credentials EXCEPT
                  ![c] = credentials[CHOOSE d \in DOMAIN pc : IsSome(credentials[d])]]
          /\ pc' = [pc EXCEPT ![c] = "resolved"]
          /\ UNCHANGED <<outcome, resolutions, chain_answer>>
     ELSE /\ resolutions' = [resolutions EXCEPT ![c] = @ + 1]
          /\ \E r \in world.chain :
               /\ chain_answer' = [chain_answer EXCEPT ![c] = Some(r)]
               /\ IF r.ok
                  THEN /\ credentials' = [credentials EXCEPT ![c] = Some(r.creds)]
                       /\ pc' = [pc EXCEPT ![c] = "resolved"]
                       /\ UNCHANGED outcome
                  ELSE /\ outcome' = [outcome EXCEPT ![c] = Some(Err("CredentialsError"))]
                       /\ pc' = [pc EXCEPT ![c] = "done"]
                       /\ UNCHANGED credentials
  /\ UNCHANGED <<params, signed_request, signed_headers, payload, res, posts,
                 sign_input, sign_calls, world>>

\* line 51: ChainProvider::new().credentials().await? ; an error returns
\* from new_iam_payload and, by the ? of line 28, from authenticate
Resolve(c) ==
  /\ pc[c] = "start"
  /\ resolutions' = [resolutions EXCEPT ![c] = @ + 1]
  /\ \E r \in world.chain :
       /\ chain_answer' = [chain_answer EXCEPT ![c] = Some(r)]
       /\ IF r.ok
          THEN /\ credentials' = [credentials EXCEPT ![c] = Some(r.creds)]
               /\ pc' = [pc EXCEPT ![c] = "resolved"]
               /\ UNCHANGED outcome
          ELSE /\ outcome' = [outcome EXCEPT ![c] = Some(Err("CredentialsError"))]
               /\ pc' = [pc EXCEPT ![c] = "done"]
               /\ UNCHANGED credentials
  /\ UNCHANGED <<params, signed_request, signed_headers, payload, res, posts,
                 sign_input, sign_calls, world>>

\* lines 52-67 with the server id header added after sign instead of before
SignRequestThenServerId(c) ==
  /\ pc[c] = "resolved"
  /\ \E date \in world.dates, signature \in world.signatures :
       LET req == BuildRequestWithoutServerId(params[c].iam_server_id)
           signed == Sign(req, Unwrap(credentials[c]), date, signature)
           id == params[c].iam_server_id
       IN /\ sign_input' = [sign_input EXCEPT ![c] = Some(req)]
          /\ signed_request' =
               [signed_request EXCEPT
                  ![c] = Some(IF IsSome(id)
                              THEN AddHeader(signed, SERVER_ID_HEADER, Unwrap(id))
                              ELSE signed)]
  /\ sign_calls' = [sign_calls EXCEPT ![c] = @ + 1]
  /\ pc' = [pc EXCEPT ![c] = "signed"]
  /\ UNCHANGED <<params, credentials, signed_headers, payload, res, outcome, posts,
                 resolutions, chain_answer, world>>

\* lines 52-67: build the request, sign it once, keep the signed request
SignRequest(c) ==
  /\ pc[c] = "resolved"
  /\ \E date \in world.dates, signature \in world.signatures :
       LET req == BuildRequest(params[c].iam_server_id)
       IN /\ sign_input' = [sign_input EXCEPT ![c] = Some(req)]
          /\ signed_request' =
               [signed_request EXCEPT
                  ![c] = Some(Sign(req, Unwrap(credentials[c]), date, signature))]
  /\ sign_calls' = [sign_calls EXCEPT ![c] = @ + 1]
  /\ pc' = [pc EXCEPT ![c] = "signed"]
  /\ UNCHANGED <<params, credentials, signed_headers, payload, res, outcome, posts,
                 resolutions, chain_answer, world>>

\* lines 69-87: decode every header value (unwrap: a value that is not UTF-8
\* panics), serialise the map, assemble the payload
BuildPayload(c) ==
  /\ pc[c] = "signed"
  /\ LET req == Unwrap(signed_request[c])
     IN IF ~HeaderValuesAreUtf8(req)
        THEN /\ outcome' = [outcome EXCEPT ![c] = Some(Panic("FromUtf8Error"))]
             /\ pc' = [pc EXCEPT ![c] = "done"]
             /\ UNCHANGED <<signed_headers, payload>>
        ELSE /\ \E kind \in world.orders :
                  LET text == SignedHeadersJson(req, HashMapOrder(DOMAIN req.headers, kind))
                  IN /\ signed_headers' = [signed_headers EXCEPT ![c] = Some(text)]
                     /\ payload' =
                          [payload EXCEPT ![c] = Some(IamPayload(params[c].role, text))]
             /\ pc' = [pc EXCEPT ![c] = "built"]
             /\ UNCHANGED outcome
  /\ UNCHANGED <<params, credentials, signed_request, res, posts, resolutions,
                 chain_answer, sign_input, sign_calls, world>>

\* lines 29-38: format the target, hand the POST to the transport
Send(c) ==
  /\ pc[c] = "built"
  /\ posts' = Append(posts,
                 PostRequest(c, LoginUrl(params[c].vault_address, params[c].mount_path),
                             Unwrap(payload[c])))
  /\ pc' = [pc EXCEPT ![c] = "sent"]
  /\ UNCHANGED <<params, credentials, signed_request, signed_headers, payload, res,
                 outcome, resolutions, chain_answer, sign_input, sign_calls, world>>

\* line 39: send().await? ; a transport error returns from authenticate
Receive(c) ==
  /\ pc[c] = "sent"
  /\ \/ /\ outcome' = [outcome EXCEPT ![c] = Some(Err("reqwest::Error(send)"))]
        /\ pc' = [pc EXCEPT ![c] = "done"]
        /\ UNCHANGED res
     \/ \E r \in world.responses :
          /\ res' = [res EXCEPT ![c] = Some(r)]
          /\ pc' = [pc EXCEPT ![c] = "received"]
          /\ UNCHANGED outcome
  /\ UNCHANGED <<params, credentials, signed_request, signed_headers, payload, posts,
                 resolutions, chain_answer, sign_input, sign_calls, world>>

\* lines 40-42: decode the body as JSON, return it
Decode(c) ==
  /\ pc[c] = "received"
  /\ outcome' = [outcome EXCEPT ![c] = Some(DecodeResponse(Unwrap(res[c])))]
  /\ pc' = [pc EXCEPT ![c] = "done"]
  /\ UNCHANGED <<params, credentials, signed_request, signed_headers, payload, res,
                 posts, resolutions, chain_answer, sign_input, sign_calls, world>>

Next ==
  \E c \in DOMAIN pc :
    \/ Resolve(c)
    \/ SignRequest(c)
    \/ BuildPayload(c)
    \/ Send(c)
    \/ Receive(c)
    \/ Decode(c)

Spec == Init /\ [][Next]_vars

(***************************************************************************)
(* Calls side by side: NumCalls calls, each with its own Parameters, in an *)
(* environment with fewer answers.                                         *)
(***************************************************************************)
ParametersOne ==
  [iam_server_id |-> Some(IdPlain), mount_path |-> MountPlain, role |-> RolePlain,
   vault_address |-> AddrPlain]
ParametersTwo ==
  [iam_server_id |-> None, mount_path |-> MountOdd, role |-> RoleSpecial,
   vault_address |-> AddrOdd]

SmallWorld ==
  [chain |-> ChainOutcomes, dates |-> SignDates,
   signatures |-> {g \in SignatureBytes : FromUtf8(g).ok},
   orders |-> {"descending"},
   responses |-> {r \in Responses : r.body \in {AsBytes(BodyAuth), AsBytes(BodyErrors)}}]

InitConcurrent ==
  InitFor(1..NumCalls,
          {[c \in 1..NumCalls |-> IF c % 2 = 1 THEN ParametersOne ELSE ParametersTwo]},
          SmallWorld)

SpecConcurrent == InitConcurrent /\ [][Next]_vars

(***************************************************************************)
(* Vocabulary of the properties.                                           *)
(***************************************************************************)
Calls == DOMAIN pc

\* the POSTs call c has issued
PostsBy(c) == {i \in 1..Len(posts) : posts[i].call = c}

ChainFailed(c) == IsSome(chain_answer[c]) /\ ~Unwrap(chain_answer[c]).ok

\* the builder met a header value that is not UTF-8
EncodingFailed(c) ==
  /\ IsSome(signed_request[c])
  /\ pc[c] # "signed"
  /\ ~HeaderValuesAreUtf8(Unwrap(signed_request[c]))

TransportFailed(c) == pc[c] = "done" /\ PostsBy(c) # {} /\ res[c] = None

DecodingFailed(c) ==
  pc[c] = "done" /\ IsSome(res[c]) /\ ~JsonFromBytes(Unwrap(res[c]).body).ok

ReturnedError(c) ==
  pc[c] = "done" /\ IsSome(outcome[c]) /\ Unwrap(outcome[c]).kind = "Err"

\* what the secret server reads out of iam_request_headers: base64, then
\* JSON, an object of arrays of strings
DecodedHeaders(p) ==
  LET raw == Base64Decode(p[K_HEADERS])
      doc == IF raw.ok THEN JsonFromBytes(raw.val) ELSE ParseFail
      shaped == /\ doc.ok
                /\ doc.val.t = "obj"
                /\ \A k \in DOMAIN doc.val.v :
                     /\ doc.val.v[k].t = "arr"
                     /\ \A i \in 1..Len(doc.val.v[k].v) : doc.val.v[k].v[i].t = "str"
  IN IF shaped
     THEN [ok |-> TRUE,
           map |-> [k \in DOMAIN doc.val.v |->
                      [i \in 1..Len(doc.val.v[k].v) |-> doc.val.v[k].v[i].v]]]
     ELSE [ok |-> FALSE, map |-> EmptyMap]

SameIgnoringAsciiCase(a, b) == ToAsciiLowercase(a) = ToAsciiLowercase(b)

(***************************************************************************)
(* C1.  When the provider chain fails, authenticate returns the            *)
(* credentials error and no POST is ever issued by that call.              *)
(***************************************************************************)
C1_CredentialFailureSendsNothing ==
  \A c \in Calls :
    ChainFailed(c) =>
      /\ PostsBy(c) = {}
      /\ pc[c] = "done"
      /\ outcome[c] = Some(Err("CredentialsError"))

C1_Witness == \E c \in Calls : ChainFailed(c) /\ pc[c] = "done"

(***************************************************************************)
(* C2, as claimed.  With iam_server_id = v the decoded iam_request_headers *)
(* has a key spelled exactly X-Vault-AWS-IAM-Server-ID with value [v];     *)
(* without it that key is absent.                                          *)
(***************************************************************************)
C2_ExactSpelling ==
  \A c \in Calls :
    IsSome(payload[c]) =>
      LET h == DecodedHeaders(Unwrap(payload[c]))
          id == params[c].iam_server_id
      IN /\ h.ok
         /\ IsSome(id) => /\ SERVER_ID_HEADER \in DOMAIN h.map
                          /\ h.map[SERVER_ID_HEADER] = <<Unwrap(id)>>
         /\ ~IsSome(id) => SERVER_ID_HEADER \notin DOMAIN h.map

(***************************************************************************)
(* C2, amended.  With iam_server_id = v the decoded iam_request_headers    *)
(* has exactly one key equal to X-Vault-AWS-IAM-Server-ID up to ASCII      *)
(* case, spelled x-vault-aws-iam-server-id, and its value is [v]; without  *)
(* it no key equal to that name up to case is present.                     *)
(***************************************************************************)
C2_ServerIdHeaderLowercased ==
  \A c \in Calls :
    IsSome(payload[c]) =>
      LET h == DecodedHeaders(Unwrap(payload[c]))
          id == params[c].iam_server_id
          named == {k \in DOMAIN h.map : SameIgnoringAsciiCase(k, SERVER_ID_HEADER)}
      IN /\ h.ok
         /\ IsSome(id) => /\ named = {SERVER_ID_HEADER_LOWER}
                          /\ h.map[SERVER_ID_HEADER_LOWER] = <<Unwrap(id)>>
         /\ ~IsSome(id) => named = {}

C2_Witness ==
  \E c \in Calls : IsSome(payload[c]) /\ params[c].iam_server_id = Some(IdSpecial)

C3_EncodingFailurePanics ==
  \A c \in Calls :
    EncodingFailed(c) =>
      /\ pc[c] = "done"
      /\ outcome[c] = Some(Panic("FromUtf8Error"))
      /\ PostsBy(c) = {}

(***************************************************************************)
(* C4.  A call resolves credentials exactly once and POSTs at most once,   *)
(* the POST only after resolution, signing and payload assembly succeeded; *)
(* after a failure of any stage the call has ended with that error, with   *)
(* no second resolution and no second POST.                                *)
(***************************************************************************)
C4_Counts ==
  \A c \in Calls :
    /\ resolutions[c] <= 1
    /\ pc[c] # "start" => resolutions[c] = 1
    /\ Cardinality(PostsBy(c)) <= 1
    /\ PostsBy(c) # {} =>
         /\ IsSome(chain_answer[c]) /\ Unwrap(chain_answer[c]).ok
         /\ IsSome(signed_request[c]) /\ sign_calls[c] = 1
         /\ IsSome(payload[c])

C4_EveryFailureEndsTheCall ==
  /\ C4_Counts
  /\ \A c \in Calls :
       /\ ChainFailed(c) => ReturnedError(c) /\ PostsBy(c) = {}
       /\ EncodingFailed(c) => pc[c] = "done" /\ PostsBy(c) = {}
       /\ TransportFailed(c) => ReturnedError(c)
       /\ DecodingFailed(c) => ReturnedError(c)

AuthValue == JObj(MapPut(EmptyMap, K_auth, JObj(MapPut(EmptyMap, K_client_token, JStr(V_t1)))))
ErrorsValue == JObj(MapPut(EmptyMap, K_errors, JArr(<<JStr(V_permission_denied)>>)))

C6_JsonReturnedVerbatim ==
  \A c \in Calls :
    (pc[c] = "done" /\ IsSome(outcome[c])) =>
      LET o == Unwrap(outcome[c]) IN
      /\ IsSome(res[c]) =>
           LET body == Unwrap(res[c]).body IN
           /\ body = AsBytes(BodyAuth) => o = Ok(AuthValue)
           /\ body = AsBytes(BodyErrors) => o = Ok(ErrorsValue)
           /\ body \notin {AsBytes(BodyAuth), AsBytes(BodyErrors)} =>
                o = Err("reqwest::Error(decode)")
      /\ TransportFailed(c) => o = Err("reqwest::Error(send)")
      /\ o.kind = "Ok" => IsSome(res[c]) /\ JsonFromBytes(Unwrap(res[c]).body).ok

C6_Witness ==
  \E c \in Calls :
    /\ pc[c] = "done"
    /\ IsSome(res[c])
    /\ Unwrap(res[c]).status = 400
    /\ outcome[c] = Some(Ok(ErrorsValue))

(***************************************************************************)
(* C7.  Whenever the builder succeeds, iam_http_request_method is POST,    *)
(* iam_request_url decodes to https://sts.amazonaws.com/ and               *)
(* iam_request_body decodes to Action=GetCallerIdentity&Version=2011-06-15 *)
(* whatever the role, the server id and the credentials.                   *)
(***************************************************************************)
C7_FixedFields ==
  \A c \in Calls :
    IsSome(payload[c]) =>
      LET p == Unwrap(payload[c]) IN
      /\ p[K_METHOD] = POST
      /\ Base64Decode(p[K_URL]) = [ok |-> TRUE, val |-> AsBytes(STS_URL)]
      /\ Base64Decode(p[K_BODY]) = [ok |-> TRUE, val |-> AsBytes(STS_BODY)]

C7_Witness ==
  \E c \in Calls :
    /\ IsSome(payload[c])
    /\ params[c].role = RoleSpecial
    /\ params[c].iam_server_id = Some(IdSpecial)
    /\ credentials[c] = Some(CredentialsB)

(***************************************************************************)
(* C8.  The role the secret server reads out of the POSTed JSON is the     *)
(* role of the Parameters, character for character, and so is the role     *)
(* field of the payload.                                                   *)
(***************************************************************************)
C8_RoleUnchanged ==
  /\ \A c \in Calls : IsSome(payload[c]) => Unwrap(payload[c])[K_ROLE] = params[c].role
  /\ \A i \in 1..Len(posts) :
       LET doc == JsonFromBytes(posts[i].body) IN
       /\ doc.ok
       /\ doc.val.t = "obj"
       /\ DOMAIN doc.val.v = {K_METHOD, K_URL, K_HEADERS, K_BODY, K_ROLE}
       /\ doc.val.v[K_ROLE] = JStr(params[posts[i].call].role)

C8_Witness ==
  \E i \in 1..Len(posts) : params[posts[i].call].role = RoleSpecial

(***************************************************************************)
(* C9.  Calls running side by side are independent: each call asks the     *)
(* provider chain itself, once, signs its own request, once, and its       *)
(* credentials, signed request, payload, POST and result are those         *)
(* obtained from its own Parameters, its own credentials and its own       *)
(* response.                                                               *)
(***************************************************************************)
C9_CallsAreIndependent ==
  \A c \in Calls :
    /\ pc[c] # "start" => resolutions[c] = 1 /\ IsSome(chain_answer[c])
    /\ IsSome(credentials[c]) =>
         /\ IsSome(chain_answer[c]) /\ Unwrap(chain_answer[c]).ok
         /\ Unwrap(credentials[c]) = Unwrap(chain_answer[c]).creds
    /\ IsSome(signed_request[c]) =>
         /\ sign_calls[c] = 1
         /\ \E d \in world.dates, g \in world.signatures :
              Unwrap(signed_request[c]) =
                Sign(BuildRequest(params[c].iam_server_id), Unwrap(credentials[c]), d, g)
    /\ IsSome(payload[c]) =>
         \E kind \in world.orders :
           LET req == Unwrap(signed_request[c])
           IN Unwrap(payload[c]) =
                IamPayload(params[c].role,
                           SignedHeadersJson(req, HashMapOrder(DOMAIN req.headers, kind)))
    /\ \A i \in PostsBy(c) :
         /\ posts[i].url = LoginUrl(params[c].vault_address, params[c].mount_path)
         /\ posts[i].body = AsBytes(JsonStringObject(Unwrap(payload[c])))
    /\ (pc[c] = "done" /\ IsSome(res[c])) =>
         outcome[c] = Some(DecodeResponse(Unwrap(res[c])))

\* two calls in flight at once, holding different credentials
C9_Witness ==
  \E c, d \in Calls :
    /\ c # d
    /\ pc[c] = "sent" /\ pc[d] = "sent"
    /\ credentials[c] = Some(CredentialsA)
    /\ credentials[d] = Some(CredentialsB)
    /\ posts[1].call = d

(***************************************************************************)
(* C10.  What is signed is what is encoded.  The request handed to the     *)
(* one sign call already carries the server id header (when supplied),     *)
(* the body and the content type; the signed request keeps them and is     *)
(* never modified afterwards; iam_request_headers decodes to exactly the   *)
(* header names of the signed request, each with all its values in order;  *)
(* iam_request_body decodes to the bytes of the signed request's body.     *)
(***************************************************************************)
C10_State ==
  \A c \in Calls :
    /\ IsSome(signed_request[c]) =>
         LET given == Unwrap(sign_input[c])
             signed == Unwrap(signed_request[c])
             id == params[c].iam_server_id
         IN /\ sign_calls[c] = 1
            /\ IsSome(id) =>
                 /\ SERVER_ID_HEADER_LOWER \in DOMAIN given.headers
                 /\ given.headers[SERVER_ID_HEADER_LOWER] = <<AsBytes(Unwrap(id))>>
            /\ given.payload = Some(AsBytes(STS_BODY))
            /\ H_CONTENT_TYPE \in DOMAIN given.headers
            /\ given.headers[H_CONTENT_TYPE] = <<AsBytes(FORM_CONTENT_TYPE)>>
            /\ signed.payload = given.payload
            /\ \A k \in DOMAIN given.headers :
                 k \in DOMAIN signed.headers /\ signed.headers[k] = given.headers[k]
    /\ IsSome(payload[c]) =>
         LET signed == Unwrap(signed_request[c])
             h == DecodedHeaders(Unwrap(payload[c]))
         IN /\ h.ok
            /\ DOMAIN h.map = DOMAIN signed.headers
            /\ \A k \in DOMAIN signed.headers :
                 /\ Len(h.map[k]) = Len(signed.headers[k])
                 /\ \A i \in 1..Len(signed.headers[k]) :
                      AsBytes(h.map[k][i]) = signed.headers[k][i]
            /\ Base64Decode(Unwrap(payload[c])[K_BODY]) =
                 [ok |-> TRUE, val |-> Unwrap(signed.payload)]

C10_Step ==
  \A c \in Calls :
    /\ IsSome(signed_request[c]) => signed_request'[c] = signed_request[c]
    /\ sign_calls[c] >= 1 => sign_calls'[c] = sign_calls[c]

C10_SignedIsEncoded == []C10_State /\ [][C10_Step]_vars

C10_Witness ==
  \E c \in Calls :
    /\ IsSome(payload[c])
    /\ params[c].iam_server_id = Some(IdSpecial)
    /\ credentials[c] = Some(CredentialsB)

====
